---- MODULE Spec2Model ----
(***************************************************************************)
(* chipseqpeaks: the ChIPSeqPeaks orchestrator of src/chipseqpeaks.py.     *)
(*                                                                         *)
(* State: the constructor's arguments, the object's attributes (self), the *)
(* files of the working directory (fs), the log of external processes      *)
(* (calls), the exception the last call raised (exc), and history          *)
(* variables for what was read, staged, written and removed.               *)
(*                                                                         *)
(* Python values are records with a type tag, so that truthiness, the      *)
(* isinstance tests of parse_input and the tuple arithmetic of call_peaks  *)
(* are computed as Python computes them.                                   *)
(*                                                                         *)
(* Two places of chipseqpeaks.py lack the comma that separates two         *)
(* adjacent expressions (line 150, line 374); they are read with the       *)
(* comma.                                                                  *)
(*                                                                         *)
(* Spec is the constructor as written: the argument tuple of call_peaks    *)
(* adds a str to a tuple (lines 221-222) and raises TypeError, so no       *)
(* object is ever built.  SpecMethods reads those two literals as          *)
(* one-element tuples, which lets the object exist, and then calls its     *)
(* methods in any order.                                                   *)
(***************************************************************************)
EXTENDS Integers, Sequences, FiniteSets, TLC

VARIABLES
    pc,        \* "new" | "constructed" | "failed"
    args,      \* the arguments of ChIPSeqPeaks(...)
    self,      \* the attributes of the object
    fs,        \* files outside the scratch area: path -> content
    calls,     \* external processes run by the last call
    exc,       \* exception raised by the last call, or "none"
    reads,     \* history: input paths opened by parse_input
    scratch,   \* history: scratch files and directories made by the last call
    written,   \* history: paths created by write
    removed,   \* history: paths removed by the last __exit__
    entered,   \* history: __enter__ has run
    last,      \* history: the last call and its arguments
    nops       \* number of method calls made after construction

vars == <<pc, args, self, fs, calls, exc, reads, scratch, written, removed,
          entered, last, nops>>

----------------------------------------------------------------------------
(* Bounds *)

MaxOps == 4          \* method calls after construction
MaxBdgcmp == 2       \* bdgcmp calls (each appends to output_extensions)

----------------------------------------------------------------------------
(* Python values *)

PyNone == [type |-> "NoneType", b |-> <<>>, s |-> "", n |-> 0, items |-> <<>>]
PyBytes(x) == [PyNone EXCEPT !.type = "bytes", !.b = x]
PyStr(x) == [PyNone EXCEPT !.type = "str", !.s = x]
PyInt(x) == [PyNone EXCEPT !.type = "int", !.n = x]
PyTuple(x) == [PyNone EXCEPT !.type = "tuple", !.items = x]
PyTypeError == [PyNone EXCEPT !.type = "TypeError"]

\* bool(v)
Truthy(v) ==
    CASE v.type = "bytes" -> v.b # <<>>
      [] v.type = "str" -> v.s # ""
      [] v.type = "int" -> v.n # 0
      [] v.type = "tuple" -> v.items # <<>>
      [] OTHER -> FALSE

\* flag * v for a bool flag and a sequence v (a tuple or a str)
PyMul(flag, v) ==
    IF flag THEN v
    ELSE IF v.type = "tuple" THEN PyTuple(<<>>) ELSE PyStr("")

\* x + y where x is a tuple: only a tuple can be concatenated to a tuple
PyAdd(x, y) ==
    IF x.type = "tuple" /\ y.type = "tuple"
    THEN PyTuple(x.items \o y.items)
    ELSE PyTypeError

\* sep.join(parts)
RECURSIVE Join(_, _)
Join(parts, sep) ==
    IF parts = <<>> THEN ""
    ELSE IF Len(parts) = 1 THEN parts[1]
    ELSE parts[1] \o sep \o Join(Tail(parts), sep)

\* str(v) as '{}'.format(v) renders it
PyFormat(v) ==
    CASE v.type = "str" -> v.s
      [] v.type = "NoneType" -> "None"
      [] v.type = "int" -> ToString(v.n)
      [] OTHER -> "<object>"

----------------------------------------------------------------------------
(* Output extensions.  An extension is kept as its '.'-separated parts, so *)
(* that the file name ('.'-joined) and the attribute name                  *)
(* (ext.replace('.', '_')) are both computed from it.                      *)

peaks_xls == <<"peaks", "xls">>
peaks_narrowPeak == <<"peaks", "narrowPeak">>
summits_bed == <<"summits", "bed">>
treat_pileup_bdg == <<"treat_pileup", "bdg">>
control_lambda_bdg == <<"control_lambda", "bdg">>
peaks_broadPeak == <<"peaks", "broadPeak">>
peaks_gappedPeak == <<"peaks", "gappedPeak">>
ppois_bdg == <<"ppois", "bdg">>

AllExtensions ==
    <<peaks_xls, peaks_narrowPeak, summits_bed, treat_pileup_bdg,
      control_lambda_bdg, peaks_broadPeak, peaks_gappedPeak, ppois_bdg>>

ExtName(ext) == Join(ext, ".")
\* ext.replace('.', '_')
AttrName(ext) == Join(ext, "_")
\* '{}_{}'.format(prefix, ext)
OutputPath(prefix, ext) == PyFormat(prefix) \o "_" \o ExtName(ext)

Range(seq) == {seq[i] : i \in DOMAIN seq}

----------------------------------------------------------------------------
(* Files *)

\* The readable input files and their content.
InputFiles ==
    [p \in {"data/t.bam", "c.bam", "empty.bam"} |->
        CASE p = "data/t.bam" -> <<1>>
          [] p = "c.bam" -> <<2>>
          [] OTHER -> <<>>]

\* os.path.basename
Basename(v) ==
    IF v.type = "str"
    THEN (IF v.s = "data/t.bam" THEN PyStr("t.bam") ELSE v)
    ELSE v

FsPut(f, path, content) ==
    [p \in DOMAIN f \cup {path} |-> IF p = path THEN content ELSE f[p]]
FsRemove(f, paths) == [p \in DOMAIN f \ paths |-> f[p]]
NoFiles == [p \in {} |-> <<>>]

\* cat path: the content of the file, nothing when it does not exist
Cat(f, path) == IF path \in DOMAIN f THEN f[path] ELSE <<>>

----------------------------------------------------------------------------
(* parse_input *)

\* parse_input without its else branch: any other input yields no bytes
parse_input_lenient(input_file) ==
    IF input_file.type = "str" /\ input_file.s \in DOMAIN InputFiles
    THEN [exc |-> "none", bytes_obj |-> InputFiles[input_file.s],
          opened |-> {input_file.s}]
    ELSE [exc |-> IF input_file.type = "str" THEN "FileNotFoundError"
                  ELSE "none",
          bytes_obj |-> input_file.b, opened |-> {}]

parse_input(input_file) ==
    IF input_file.type = "bytes"
    THEN [exc |-> "none", bytes_obj |-> input_file.b, opened |-> {}]
    ELSE IF input_file.type = "str"
    THEN (IF input_file.s \in DOMAIN InputFiles
          THEN [exc |-> "none", bytes_obj |-> InputFiles[input_file.s],
                opened |-> {input_file.s}]
          ELSE [exc |-> "FileNotFoundError", bytes_obj |-> <<>>, opened |-> {}])
    ELSE [exc |-> "BadInputError", bytes_obj |-> <<>>, opened |-> {}]

----------------------------------------------------------------------------
(* The object *)

NoSelf ==
    [treatment_bam |-> <<>>, macs2_path |-> PyNone, control_bam |-> PyNone,
     qvalue |-> "", nomodel |-> FALSE, shift |-> 0, broad |-> FALSE,
     broad_cutoff |-> "", nolambda |-> FALSE, call_summits |-> FALSE,
     cleans_up |-> FALSE, cleanup_prefix |-> PyNone,
     output_extensions |-> <<>>, buf |-> NoFiles]

\* hasattr(self, name) for the output buffers
HasBuffer(s, ext) == AttrName(ext) \in DOMAIN s.buf

\* setattr(self, ext.replace('.', '_'), content)
SetBuffer(buf, ext, content) == FsPut(buf, AttrName(ext), content)

----------------------------------------------------------------------------
(* External processes.  Their exit status is never inspected; what they    *)
(* leave behind is all the orchestrator sees.                              *)

\* the argument that follows flag in argv, "" when flag is not there
ArgAfter(argv, flag) ==
    IF \E i \in 1..(Len(argv) - 1) : argv[i] = flag
    THEN argv[1 + CHOOSE i \in 1..(Len(argv) - 1) : argv[i] = flag /\
                      \A j \in 1..(i - 1) : argv[j] # flag]
    ELSE ""

HasArg(argv, flag) == \E i \in DOMAIN argv : argv[i] = flag

ExtIndex(ext) == CHOOSE i \in DOMAIN AllExtensions : AllExtensions[i] = ext

\* what the peak caller puts into its output file for ext: two intervals,
\* one of its own and one (9) that the blacklist covers
CallpeakContent(ext) == <<ExtIndex(ext), 9>>

\* the files a callpeak run produces
CallpeakExtensions(argv) ==
    {peaks_xls, peaks_narrowPeak, summits_bed, treat_pileup_bdg,
     control_lambda_bdg}
    \cup (IF HasArg(argv, "--broad")
          THEN {peaks_broadPeak, peaks_gappedPeak} ELSE {})

\* Outcomes of the callpeak process: it leaves nothing ("no_output"), it
\* leaves its files under the name it was given with --name, relative to
\* the working directory ("at_name"), or its files are found under the
\* prefix the orchestrator reads ("at_read_prefix").
CallpeakOutcomes == {"no_output", "at_name", "at_read_prefix"}

\* the files of the run: path -> content
CallpeakFiles(argv, outcome, read_prefix) ==
    LET prefix == IF outcome = "at_name" THEN ArgAfter(argv, "--name")
                  ELSE read_prefix
        exts == IF outcome = "no_output" THEN {} ELSE CallpeakExtensions(argv)
    IN  [p \in {prefix \o "_" \o ExtName(e) : e \in exts} |->
            CallpeakContent(CHOOSE e \in exts : prefix \o "_" \o ExtName(e) = p)]

\* bdgcmp -m ppois: a score track computed from the two tracks
PpoisContent(treat, control) == <<8>> \o treat \o control

BdgcmpOutcomes == {"no_output", "at_o_prefix"}

BdgcmpFiles(argv, outcome, treat, control) ==
    IF outcome = "no_output" THEN NoFiles
    ELSE FsPut(NoFiles, ArgAfter(argv, "--o-prefix") \o "_" \o ExtName(ppois_bdg),
               PpoisContent(treat, control))

\* bedtools intersect -a stdin -b blacklist -v: the intervals of peaks that
\* no interval of the blacklist overlaps
Blacklist(blacklist_path) ==
    IF blacklist_path = "blacklist.bed" THEN {9} ELSE {}

IntersectV(peaks, blocked) == SelectSeq(peaks, LAMBDA x : x \notin blocked)

----------------------------------------------------------------------------
(* Scratch names (tempfile) *)

TempTreatment == "/tmp/tmp_treatment"
TempControl == "/tmp/tmp_control"
TempDir == "/tmp/tmp_dir"
TempName == "/tmp/tmp_dir/tmp_name"

InScratch(path) == path \in {TempTreatment, TempControl, TempDir, TempName}
    \/ \E e \in Range(AllExtensions) : path = TempName \o "_" \o ExtName(e)

----------------------------------------------------------------------------
(* call_peaks *)

\* A parenthesised string literal, ('--nolambda'): a str, not a tuple.
ParenStr(s) == PyStr(s)
\* The one-element tuple ('--nolambda',).
OneTuple(s) == PyTuple(<<s>>)
\* The literals of lines 221-222 as written ("str") or as one-element
\* tuples ("tuple").
Paren(reading, s) == IF reading = "tuple" THEN OneTuple(s) ELSE ParenStr(s)

\* a command-line argument as the process receives it
ArgText(v) == IF v.type = "str" THEN v.s ELSE "<bytes>"

\* The argument tuple of subprocess.call, lines 205-222.
callpeak_argv(s, sample_name, reading) ==
    LET base == PyTuple(<<PyFormat(s.macs2_path), "callpeak", "-B",
                          "--extsize", "200", "--keep-dup", "all",
                          "--treatment", TempTreatment,
                          "--name", ArgText(sample_name),
                          "--qvalue", s.qvalue,
                          "--shift", ToString(s.shift)>>)
        a1 == PyAdd(base, PyMul(Truthy(s.control_bam),
                                PyTuple(<<"--control", TempControl>>)))
        a2 == PyAdd(a1, PyMul(s.nomodel, PyTuple(<<"--nomodel">>)))
        a3 == PyAdd(a2, PyMul(s.broad,
                              PyTuple(<<"--broad", "--broad-cutoff",
                                        s.broad_cutoff>>)))
        a4 == PyAdd(a3, PyMul(s.nolambda, Paren(reading, "--nolambda")))
    IN  PyAdd(a4, PyMul(s.call_summits, Paren(reading, "--call-summits")))

\* One entry of the log of external processes.
Call(argv, read_prefix, files) ==
    [argv |-> argv, read_prefix |-> read_prefix, files |-> files]

\* The buffers loaded by the loop of lines 225-231 from the files found.
RECURSIVE LoadOutputs(_, _, _)
LoadOutputs(buf, exts, found) ==
    IF exts = <<>> THEN buf
    ELSE LoadOutputs(
            SetBuffer(buf, Head(exts),
                      Cat(found, TempName \o "_" \o ExtName(Head(exts)))),
            Tail(exts), found)

\* the files of f that are outside the scratch area
Outside(f) == [p \in {q \in DOMAIN f : ~InScratch(q)} |-> f[p]]

\* f overwritten by the files of g
Overlay(f, g) ==
    [p \in DOMAIN f \cup DOMAIN g |-> IF p \in DOMAIN g THEN g[p] ELSE f[p]]

\* call_peaks: stage the inputs, run the peak caller, load its outputs.
\* Four scratch entries are created (two files, a directory, a file in it)
\* and all of them are gone when the method ends, however it ends.
call_peaks(s, sample_name, reading, outcome, f) ==
    LET argv == callpeak_argv(s, sample_name, reading)
    IN  IF argv.type = "TypeError"
        THEN [exc |-> "TypeError", buf |-> s.buf, fs |-> f, calls |-> <<>>,
              scratch |-> 4]
        ELSE LET files == CallpeakFiles(argv.items, outcome, TempName)
             IN  [exc |-> "none",
                  buf |-> LoadOutputs(s.buf, s.output_extensions, files),
                  fs |-> Overlay(f, Outside(files)),
                  calls |-> <<Call(argv.items, TempName, files)>>,
                  scratch |-> 4]

----------------------------------------------------------------------------
(* ChIPSeqPeaks.__init__ *)

\* a test for None alone, which lets an empty path through
macs2_missing_none_only(macs2_path) == macs2_path.type = "NoneType"

\* the test of line 123
macs2_missing(macs2_path) == ~Truthy(macs2_path)

\* the test of line 133: is the control input parsed at all
control_given(control_bam) == Truthy(control_bam)

\* lines 144-148
initial_output_extensions(control_bam, broad) ==
    <<peaks_xls, peaks_narrowPeak, summits_bed, treat_pileup_bdg>>
    \o (IF Truthy(control_bam) THEN <<control_lambda_bdg>> ELSE <<>>)
    \o (IF broad THEN <<peaks_broadPeak, peaks_gappedPeak>> ELSE <<>>)

ChIPSeqPeaks_init(a, reading, outcome, f) ==
    LET fail(e, s, r) ==
            [exc |-> e, self |-> s, fs |-> f, calls |-> <<>>, reads |-> r,
             scratch |-> 0]
        t == parse_input(a.treatment_bam)
        c == IF control_given(a.control_bam) THEN parse_input(a.control_bam)
             ELSE [exc |-> "none", bytes_obj |-> <<>>, opened |-> {}]
        s1 == [NoSelf EXCEPT !.treatment_bam = t.bytes_obj,
                             !.macs2_path = a.macs2_path]
        s2 == [s1 EXCEPT
                 !.control_bam = IF control_given(a.control_bam)
                                 THEN PyBytes(c.bytes_obj) ELSE PyNone,
                 !.qvalue = a.qvalue,
                 !.nomodel = IF a.atac_seq /\ ~a.nomodel THEN TRUE
                             ELSE a.nomodel,
                 !.shift = IF a.atac_seq /\ a.shift = 0 THEN -100 ELSE a.shift,
                 !.broad = a.broad,
                 !.broad_cutoff = a.broad_cutoff,
                 !.nolambda = a.nolambda,
                 !.call_summits = a.call_summits,
                 !.cleans_up = FALSE,
                 !.cleanup_prefix = PyNone,
                 !.output_extensions =
                     initial_output_extensions(a.control_bam, a.broad)]
    IN  IF macs2_missing(a.macs2_path)
        THEN fail("MissingMACS2Error", NoSelf, {})
        ELSE IF t.exc # "none" THEN fail(t.exc, NoSelf, t.opened)
        ELSE IF c.exc # "none" THEN fail(c.exc, s1, t.opened \cup c.opened)
        ELSE LET r == call_peaks(s2, Basename(a.treatment_bam), reading,
                                 outcome, f)
             IN  [exc |-> r.exc, self |-> [s2 EXCEPT !.buf = r.buf],
                  fs |-> r.fs, calls |-> r.calls,
                  reads |-> t.opened \cup c.opened, scratch |-> r.scratch]

----------------------------------------------------------------------------
(* ChIPSeqPeaks.bdgcmp *)

bdgcmp_argv(s) ==
    <<PyFormat(s.macs2_path), "bdgcmp", "-t", TempTreatment,
      "-c", TempControl, "-m", "ppois", "--o-prefix", TempName,
      "-p", "0.00001">>

\* The extension is appended first (line 236); the three scratch entries
\* are made, then the two buffers are read (lines 244-245), which raises
\* AttributeError when one of them was never set.
bdgcmp(s, outcome) ==
    LET s1 == [s EXCEPT !.output_extensions = Append(@, ppois_bdg)]
    IN  IF ~HasBuffer(s1, treat_pileup_bdg) \/ ~HasBuffer(s1, control_lambda_bdg)
        THEN [exc |-> "AttributeError", self |-> s1, calls |-> <<>>,
              scratch |-> 3]
        ELSE LET argv == bdgcmp_argv(s1)
                 files == BdgcmpFiles(argv, outcome,
                                      s1.buf[AttrName(treat_pileup_bdg)],
                                      s1.buf[AttrName(control_lambda_bdg)])
             IN  [exc |-> "none",
                  self |-> [s1 EXCEPT !.buf =
                      SetBuffer(@, ppois_bdg,
                                Cat(files, TempName \o "_" \o ExtName(ppois_bdg)))],
                  calls |-> <<Call(argv, TempName, files)>>,
                  scratch |-> 4]

----------------------------------------------------------------------------
(* bedtools_intersect and ChIPSeqPeaks.remove_blacklisted_peaks *)

bedtools_intersect(peaks, blacklist_path) ==
    [argv |-> <<"bedtools", "intersect", "-a", "stdin", "-b", blacklist_path,
                "-v">>,
     out |-> IntersectV(peaks, Blacklist(blacklist_path))]

\* The loop of lines 276-279 binds each buffer to the local name peaks and
\* rebinds that local name to the filtered bytes; no attribute is assigned.
\* locals.peaks is the value of the local name when the method returns.
remove_blacklisted_peaks(s, blacklist_path) ==
    LET targets == <<peaks_narrowPeak>>
                   \o (IF s.broad THEN <<peaks_broadPeak, peaks_gappedPeak>>
                       ELSE <<>>)
        results == [i \in DOMAIN targets |->
                      bedtools_intersect(s.buf[AttrName(targets[i])],
                                         blacklist_path)]
    IN  [exc |-> "none",
         self |-> s,
         locals |-> [peaks |-> results[Len(results)].out],
         calls |-> [i \in DOMAIN targets |->
                      Call(results[i].argv, "stdout",
                           FsPut(NoFiles, "stdout", results[i].out))]]

----------------------------------------------------------------------------
(* ChIPSeqPeaks.write *)

\* The loop of lines 292-294: open(path, 'wb') creates or truncates the
\* file before the buffer is looked up.
RECURSIVE write_files(_, _, _, _, _)
write_files(s, prefix, exts, f, created) ==
    IF exts = <<>> THEN [exc |-> "none", fs |-> f, created |-> created]
    ELSE LET path == OutputPath(prefix, Head(exts))
         IN  IF ~HasBuffer(s, Head(exts))
             THEN [exc |-> "AttributeError", fs |-> FsPut(f, path, <<>>),
                   created |-> created \cup {path}]
             ELSE write_files(s, prefix, Tail(exts),
                              FsPut(f, path, s.buf[AttrName(Head(exts))]),
                              created \cup {path})

write(s, prefix, extensions, f) ==
    LET r == write_files(s, prefix,
                         IF extensions # <<>> THEN extensions
                         ELSE s.output_extensions,
                         f, {})
    IN  [exc |-> r.exc,
         self |-> IF r.exc = "none" THEN [s EXCEPT !.cleanup_prefix = prefix]
                  ELSE s,
         fs |-> r.fs, created |-> r.created]

----------------------------------------------------------------------------
(* ChIPSeqPeaks.__enter__, __exit__, clean_up *)

ChIPSeqPeaks_enter(s) == [s EXCEPT !.cleans_up = TRUE]

\* clean_up(path): the paths it removes from f
clean_up(path, f) == IF path # "" /\ path \in DOMAIN f THEN {path} ELSE {}

\* the paths __exit__ hands to clean_up
exit_paths(s) ==
    IF s.cleans_up
    THEN {OutputPath(s.cleanup_prefix, ext) : ext \in Range(s.output_extensions)}
    ELSE {}

ChIPSeqPeaks_exit(s, f) ==
    LET gone == UNION {clean_up(p, f) : p \in exit_paths(s)}
    IN  [exc |-> "none", fs |-> FsRemove(f, gone), removed |-> gone]

----------------------------------------------------------------------------
(* Inputs *)

Macs2Paths == {PyNone, PyStr(""), PyStr("macs2")}
TreatmentInputs ==
    {PyBytes(<<1>>), PyStr("data/t.bam"), PyStr("missing.bam"), PyNone,
     PyInt(5)}
ControlInputs ==
    {PyNone, PyBytes(<<>>), PyBytes(<<2>>), PyStr(""), PyStr("c.bam"),
     PyStr("empty.bam"), PyStr("missing.bam"), PyInt(0), PyInt(5)}
Shifts == {0, 50}
QValues == {"0.05", "0.01"}

Arguments ==
    [treatment_bam : TreatmentInputs, macs2_path : Macs2Paths,
     atac_seq : BOOLEAN, control_bam : ControlInputs, qvalue : QValues,
     nomodel : BOOLEAN, shift : Shifts, broad : BOOLEAN,
     broad_cutoff : {"0.1"}, nolambda : BOOLEAN, call_summits : BOOLEAN]

NoCall == [op |-> "none", prefix |-> "", extensions |-> <<>>, path |-> ""]

InitWith(argset, files) ==
    /\ pc = "new"
    /\ args \in argset
    /\ self = NoSelf
    /\ fs \in files
    /\ calls = <<>>
    /\ exc = "none"
    /\ reads = {}
    /\ scratch = 0
    /\ written = {}
    /\ removed = {}
    /\ entered = FALSE
    /\ last = NoCall
    /\ nops = 0

Init == InitWith(Arguments, {NoFiles})

\* ChIPSeqPeaks(...), with the given reading of lines 221-222
ConstructWith(reading) ==
    /\ pc = "new"
    /\ \E outcome \in CallpeakOutcomes :
         LET r == ChIPSeqPeaks_init(args, reading, outcome, fs)
         IN  /\ pc' = IF r.exc = "none" THEN "constructed" ELSE "failed"
             /\ self' = r.self
             /\ fs' = r.fs
             /\ calls' = r.calls
             /\ exc' = r.exc
             /\ reads' = r.reads
             /\ scratch' = r.scratch
    /\ last' = [NoCall EXCEPT !.op = "__init__"]
    /\ UNCHANGED <<args, written, removed, entered, nops>>

\* ChIPSeqPeaks(...) as the source has it
Construct == ConstructWith("str")

Next == Construct

Spec == Init /\ [][Next]_vars

----------------------------------------------------------------------------
(* The constructed object's methods, called in any order.  The argument    *)
(* tuple of call_peaks raises for every configuration (Construct), so no   *)
(* run of Spec has an object to call them on.  SpecMethods builds the      *)
(* object with the literals of lines 221-222 taken as one-element tuples   *)
(* and is otherwise the same program.                                      *)

ConstructTupled == ConstructWith("tuple")

MethodArguments ==
    [treatment_bam : {PyBytes(<<1>>), PyStr("data/t.bam")},
     macs2_path : {PyStr("macs2")},
     atac_seq : {FALSE},
     control_bam : {PyNone, PyBytes(<<2>>), PyStr("empty.bam"), PyInt(5)},
     qvalue : {"0.05"}, nomodel : {FALSE}, shift : {0}, broad : BOOLEAN,
     broad_cutoff : {"0.1"}, nolambda : {FALSE}, call_summits : {FALSE}]

\* files of other owners that are there before the object is made
ForeignFiles ==
    {NoFiles,
     FsPut(NoFiles, "None_peaks.xls", <<7>>),
     FsPut(NoFiles, "out_ppois.bdg", <<7>>)}

\* The arguments of write: a prefix, and no extensions (all known ones) or
\* some of the known ones.
Prefixes == {PyStr("out"), PyStr("alt")}
ExtensionChoices ==
    {<<>>, <<peaks_narrowPeak>>, <<ppois_bdg>>, <<treat_pileup_bdg, peaks_xls>>}
BlacklistPaths == {"blacklist.bed"}

InitMethods == InitWith(MethodArguments, ForeignFiles)

Called(op) ==
    /\ pc = "constructed"
    /\ nops < MaxOps
    /\ nops' = nops + 1
    /\ last' = [NoCall EXCEPT !.op = op]
    /\ UNCHANGED <<pc, args, reads>>

Enter ==
    /\ Called("__enter__")
    /\ ~entered
    /\ entered' = TRUE
    /\ self' = ChIPSeqPeaks_enter(self)
    /\ exc' = "none"
    /\ calls' = <<>>
    /\ scratch' = 0
    /\ UNCHANGED <<fs, written, removed>>

Exit ==
    /\ Called("__exit__")
    /\ entered
    /\ LET r == ChIPSeqPeaks_exit(self, fs)
       IN  /\ fs' = r.fs
           /\ removed' = r.removed
           /\ exc' = r.exc
    /\ calls' = <<>>
    /\ scratch' = 0
    /\ UNCHANGED <<self, written, entered>>

\* cp.cleans_up = False, as the module's example does inside the with block
SetCleansUp ==
    /\ Called("cleans_up")
    /\ entered
    /\ self.cleans_up
    /\ self' = [self EXCEPT !.cleans_up = FALSE]
    /\ exc' = "none"
    /\ calls' = <<>>
    /\ scratch' = 0
    /\ UNCHANGED <<fs, written, removed, entered>>

Bdgcmp ==
    /\ Called("bdgcmp")
    /\ Len(SelectSeq(self.output_extensions, LAMBDA e : e = ppois_bdg)) < MaxBdgcmp
    /\ \E outcome \in BdgcmpOutcomes :
         LET r == bdgcmp(self, outcome)
         IN  /\ self' = r.self
             /\ exc' = r.exc
             /\ calls' = r.calls
             /\ scratch' = r.scratch
    /\ UNCHANGED <<fs, written, removed, entered>>

RemoveBlacklistedPeaks ==
    /\ pc = "constructed"
    /\ nops < MaxOps
    /\ nops' = nops + 1
    /\ \E path \in BlacklistPaths :
         LET r == remove_blacklisted_peaks(self, path)
         IN  /\ self' = r.self
             /\ exc' = r.exc
             /\ calls' = r.calls
             /\ last' = [NoCall EXCEPT !.op = "remove_blacklisted_peaks",
                                       !.path = path]
    /\ scratch' = 0
    /\ UNCHANGED <<pc, args, reads, fs, written, removed, entered>>

Write ==
    /\ pc = "constructed"
    /\ nops < MaxOps
    /\ nops' = nops + 1
    /\ \E prefix \in Prefixes, extensions \in ExtensionChoices :
         LET r == write(self, prefix, extensions, fs)
         IN  /\ Range(extensions) \subseteq Range(self.output_extensions)
             /\ self' = r.self
             /\ fs' = r.fs
             /\ exc' = r.exc
             /\ written' = written \cup r.created
             /\ last' = [NoCall EXCEPT !.op = "write", !.prefix = prefix.s,
                                       !.extensions = extensions]
    /\ calls' = <<>>
    /\ scratch' = 0
    /\ UNCHANGED <<pc, args, reads, removed, entered>>

NextMethods ==
    \/ ConstructTupled
    \/ Enter
    \/ Exit
    \/ SetCleansUp
    \/ Bdgcmp
    \/ RemoveBlacklistedPeaks
    \/ Write

SpecMethods == InitMethods /\ [][NextMethods]_vars

----------------------------------------------------------------------------
(* Claims about construction, checked under Spec *)

\* the constructor has just run
Constructing == last.op = "__init__"
BadType(v) == v.type \notin {"str", "bytes"}
Readable(v) == v.type = "bytes" \/ (v.type = "str" /\ v.s \in DOMAIN InputFiles)
ContentOf(v) == IF v.type = "bytes" THEN v.b ELSE InputFiles[v.s]

\* C1: construction with an absent macs2_path (None or the empty string)
\* raises MissingMACS2Error whatever the other arguments are, and by then
\* no input was read, no scratch file was made and no process was run.
C1_MissingMACS2 ==
    (Constructing /\ args.macs2_path \in {PyNone, PyStr("")}) =>
        /\ pc = "failed"
        /\ exc = "MissingMACS2Error"
        /\ reads = {}
        /\ scratch = 0
        /\ calls = <<>>

\* C1 witness: an empty macs2_path, given together with a readable control
\* path and a treatment of the wrong type, raised MissingMACS2Error.
C1_Witness ==
    /\ pc = "failed"
    /\ args.macs2_path = PyStr("")
    /\ args.treatment_bam = PyInt(5)
    /\ args.control_bam = PyStr("c.bam")
    /\ exc = "MissingMACS2Error"

\* C2 as stated: with a macs2_path, a treatment or a supplied control that
\* is neither str nor bytes makes construction raise BadInputError without
\* running the peak caller; a bytes input is used as is and a str input is
\* replaced by the bytes read from it.
C2_AsStated ==
    (Constructing /\ Truthy(args.macs2_path)) =>
        /\ (BadType(args.treatment_bam)
            \/ (args.control_bam # PyNone /\ BadType(args.control_bam)))
           => (exc = "BadInputError" /\ calls = <<>>)
        /\ (Readable(args.treatment_bam) /\ Readable(args.control_bam))
           => /\ self.treatment_bam = ContentOf(args.treatment_bam)
              /\ self.control_bam = PyBytes(ContentOf(args.control_bam))

\* C2 amended: with a macs2_path, a treatment that is neither str nor bytes
\* raises BadInputError before anything is read; a truthy control that is
\* neither str nor bytes raises it once the treatment has been parsed; the
\* peak caller is run in neither case.  A falsy control (None, 0, b'', '')
\* of any type is taken as no control: it is not read, it raises nothing
\* and control_bam stays None.  A bytes input is used as is and a str input
\* is replaced by the bytes read from that path, the control only when it
\* is truthy.
C2_InputKinds ==
    (Constructing /\ Truthy(args.macs2_path)) =>
        /\ BadType(args.treatment_bam)
           => (exc = "BadInputError" /\ calls = <<>> /\ reads = {})
        /\ (Readable(args.treatment_bam) /\ Truthy(args.control_bam)
            /\ BadType(args.control_bam))
           => (exc = "BadInputError" /\ calls = <<>>)
        /\ Readable(args.treatment_bam)
           => /\ self.treatment_bam = ContentOf(args.treatment_bam)
              /\ args.treatment_bam.type = "str"
                 => args.treatment_bam.s \in reads
        /\ (Readable(args.treatment_bam) /\ ~Truthy(args.control_bam))
           => /\ exc \notin {"BadInputError", "FileNotFoundError"}
              /\ self.control_bam = PyNone
              /\ reads \subseteq {args.treatment_bam.s}
        /\ (Readable(args.treatment_bam) /\ Truthy(args.control_bam)
            /\ Readable(args.control_bam))
           => /\ self.control_bam = PyBytes(ContentOf(args.control_bam))
              /\ args.control_bam.type = "str"
                 => args.control_bam.s \in reads

\* C2 witness: a control of the wrong type raised BadInputError after the
\* treatment path had been read.
C2_Witness ==
    /\ pc = "failed"
    /\ args.macs2_path = PyStr("macs2")
    /\ args.treatment_bam = PyStr("data/t.bam")
    /\ args.control_bam = PyInt(5)
    /\ exc = "BadInputError"
    /\ reads = {"data/t.bam"}
    /\ calls = <<>>

\* the attributes that hold buffers when the known extensions are exts
BufferNames(exts) == {AttrName(e) : e \in exts}

ExpectedExtensions(a) ==
    {peaks_xls, peaks_narrowPeak, summits_bed, treat_pileup_bdg}
    \cup (IF Truthy(a.control_bam) THEN {control_lambda_bdg} ELSE {})
    \cup (IF a.broad THEN {peaks_broadPeak, peaks_gappedPeak} ELSE {})

ValidInputs ==
    /\ Truthy(args.macs2_path)
    /\ Readable(args.treatment_bam)
    /\ ~Truthy(args.control_bam) \/ Readable(args.control_bam)

\* C3: for a valid treatment input construction either raises
\* MissingMACS2Error or BadInputError, or succeeds with exactly these
\* buffers: the four that are always there, control_lambda.bdg iff a
\* control was given, the two broad ones iff broad is set.
C3_ExactBuffers ==
    (Constructing /\ Readable(args.treatment_bam)
     /\ (args.control_bam.type = "str" => Readable(args.control_bam))) =>
        \/ exc \in {"MissingMACS2Error", "BadInputError"}
        \/ /\ pc = "constructed"
           /\ exc = "none"
           /\ DOMAIN self.buf = BufferNames(ExpectedExtensions(args))

\* the argument list C9 describes
C9_Argv(argv, a) ==
    /\ \A x \in {"callpeak", "-B"} : HasArg(argv, x)
    /\ ArgAfter(argv, "--extsize") = "200"
    /\ ArgAfter(argv, "--keep-dup") = "all"
    /\ ArgAfter(argv, "--treatment") = TempTreatment
    /\ HasArg(argv, "--name")
    /\ ArgAfter(argv, "--qvalue") = a.qvalue
    /\ ArgAfter(argv, "--shift") =
           ToString(IF a.atac_seq /\ a.shift = 0 THEN -100 ELSE a.shift)
    /\ HasArg(argv, "--control") <=> a.control_bam # PyNone
    /\ HasArg(argv, "--control") => ArgAfter(argv, "--control") = TempControl
    /\ HasArg(argv, "--nomodel") <=> (a.nomodel \/ a.atac_seq)
    /\ HasArg(argv, "--broad") <=> a.broad
    /\ HasArg(argv, "--broad-cutoff") <=> a.broad
    /\ a.broad => ArgAfter(argv, "--broad-cutoff") = a.broad_cutoff
    /\ HasArg(argv, "--nolambda") <=> a.nolambda
    /\ HasArg(argv, "--call-summits") <=> a.call_summits

\* C9: construction runs the peak caller exactly once, with the argument
\* list that the configuration determines.
C9_OneCallpeak ==
    (Constructing /\ ValidInputs) =>
        /\ Len(calls) = 1
        /\ C9_Argv(calls[1].argv, args)

----------------------------------------------------------------------------
(* Claims about the methods, checked under SpecMethods *)

Step(op) == nops' = nops + 1 /\ last'.op = op

\* C10: each external step reads its outputs under the prefix the process
\* was told to write them under, so a process that produced its files has
\* them loaded into the buffers, and nothing it wrote stays outside the
\* scratch area.
C10_SamePrefix ==
    \A i \in DOMAIN calls :
        LET c == calls[i]
            told == IF c.argv[2] = "callpeak" THEN ArgAfter(c.argv, "--name")
                    ELSE ArgAfter(c.argv, "--o-prefix")
        IN  c.argv[2] \in {"callpeak", "bdgcmp"} =>
              /\ told = c.read_prefix
              /\ \A e \in Range(self.output_extensions) :
                   told \o "_" \o ExtName(e) \in DOMAIN c.files
                   => self.buf[AttrName(e)] = c.files[told \o "_" \o ExtName(e)]
              /\ \A p \in DOMAIN c.files : InScratch(p)

\* C4: when __exit__ runs with cleans_up set, after write calls of an
\* object whose known extensions all have buffers, every file those calls
\* created is gone, the exit removed no other file, and nothing is raised,
\* the second time either.
C4_ExitRemovesWritten ==
    (last.op = "__exit__" /\ self.cleans_up /\ written # {}
     /\ \A e \in Range(self.output_extensions) : HasBuffer(self, e)) =>
        /\ \A p \in written : p \notin DOMAIN fs
        /\ removed \subseteq written
        /\ exc = "none"

FilteredNames(s) ==
    BufferNames({peaks_narrowPeak}
                \cup (IF s.broad THEN {peaks_broadPeak, peaks_gappedPeak}
                      ELSE {}))

\* C5: after remove_blacklisted_peaks the narrowPeak buffer (in broad mode
\* the broadPeak and gappedPeak buffers too) is what bedtools intersect -v
\* made of its previous content, and every other buffer is unchanged.
C5_BuffersFiltered ==
    [][Step("remove_blacklisted_peaks") =>
        /\ DOMAIN self'.buf = DOMAIN self.buf
        /\ \A n \in DOMAIN self.buf :
             self'.buf[n] = IF n \in FilteredNames(self)
                            THEN bedtools_intersect(self.buf[n], last'.path).out
                            ELSE self.buf[n]]_vars

\* C6: write(prefix, *extensions), for the chosen known extensions or for
\* all known ones, creates <prefix>_<extension> with the buffer's content
\* for each of them and no other file, leaves the buffers alone and
\* records prefix as the cleanup prefix.
C6_WriteFiles ==
    [][(Step("write")
        /\ Range(last'.extensions) \subseteq Range(self.output_extensions)) =>
        LET exts == IF last'.extensions # <<>> THEN Range(last'.extensions)
                    ELSE Range(self.output_extensions)
            paths == {OutputPath(PyStr(last'.prefix), e) : e \in exts}
        IN  /\ exc' = "none"
            /\ \A e \in exts :
                 /\ HasBuffer(self, e)
                 /\ OutputPath(PyStr(last'.prefix), e) \in DOMAIN fs'
                 /\ fs'[OutputPath(PyStr(last'.prefix), e)] = self.buf[AttrName(e)]
            /\ DOMAIN fs' = DOMAIN fs \cup paths
            /\ \A p \in DOMAIN fs \ paths : fs'[p] = fs[p]
            /\ self'.buf = self.buf
            /\ self'.cleanup_prefix = PyStr(last'.prefix)]_vars

\* C7: bdgcmp runs its process only when the treat_pileup.bdg and
\* control_lambda.bdg buffers are there, and then adds the ppois.bdg buffer
\* and changes no other; when one is missing it fails without running the
\* process and leaves the known extensions and the buffers as they were.
C7_BdgcmpGuarded ==
    [][Step("bdgcmp") =>
        IF HasBuffer(self, treat_pileup_bdg) /\ HasBuffer(self, control_lambda_bdg)
        THEN /\ Len(calls') = 1
             /\ DOMAIN self'.buf = DOMAIN self.buf \cup {AttrName(ppois_bdg)}
             /\ \A n \in DOMAIN self.buf \ {AttrName(ppois_bdg)} :
                  self'.buf[n] = self.buf[n]
        ELSE /\ exc' # "none"
             /\ calls' = <<>>
             /\ self'.output_extensions = self.output_extensions
             /\ self'.buf = self.buf]_vars

\* C8: after construction the known extensions and the buffers correspond
\* one to one: each listed extension has a buffer, none is listed twice,
\* and there is no buffer for an extension that is not listed.
C8_OneToOne ==
    pc = "constructed" =>
        /\ \A e \in Range(self.output_extensions) : HasBuffer(self, e)
        /\ \A i, j \in DOMAIN self.output_extensions :
             self.output_extensions[i] = self.output_extensions[j] => i = j
        /\ DOMAIN self.buf = BufferNames(Range(self.output_extensions))

====
